---- MODULE Spec2Model ----
(***************************************************************************)
(* Request-handling model of the blog API: the Express application of      *)
(* part_000 (routes /auth/signup, /auth/login, /posts...) and the one of   *)
(* index.js (routes /signup, /login, /blogs), both over a PostgreSQL store *)
(* with the tables blog_users, posts and blogs.                            *)
(*                                                                         *)
(* Every handler is translated statement by statement.  A handler that     *)
(* awaits two dependent store calls (signup: SELECT, hash, INSERT; delete: *)
(* SELECT, DELETE) is split at its awaits, so that other requests can      *)
(* interleave exactly where the event loop lets them.                      *)
(***************************************************************************)
EXTENDS Integers, Sequences, FiniteSets, TLC

\* ------------------------------------------------------------------ bounds
MaxUsers == 2       \* rows the blog_users table may hold
MaxPosts == 2       \* ids the posts / blogs sequences may hand out
MaxTime  == 2       \* last clock value (the clock counts hours)
MaxGuardPosts == 2  \* posts created while the guard is exercised with every header

\* ------------------------------------------------------- program constants
saltRounds == 10    \* bcrypt cost factor
ExpiresIn  == 1     \* expiresIn: '1h', in clock units (hours)

\* ----------------------------------------------------------- input domains
Slots        == {"r1", "r2"}            \* requests the server has in flight
Emails       == {"a@x", "b@x"}
StrPasswords == {"pw1", "pw2"}
Undefined    == "undefined"             \* a JSON body field that is absent / no string
BodyPasswords == StrPasswords \cup {Undefined}
JWT_SECRET   == "JWT_SECRET"            \* process.env.JWT_SECRET
OtherSecret  == "attacker-key"

VARIABLES
  users,        \* table blog_users: sequence of rows, in insertion order
  nextUserId,   \* the serial behind blog_users.id
  posts,        \* table posts (part_000): set of rows
  nextPostId,   \* the serial behind posts.id
  blogs,        \* table blogs (index.js): set of rows
  nextBlogId,   \* the serial behind blogs.id
  now,          \* wall clock, read by jwt.sign / jwt.verify
  signupReq,    \* per slot: locals of a signup handler suspended at an await
  deleteReq,    \* per slot: locals of a delete handler suspended at an await
  last          \* the request handled by the last step and what was sent back

vars == <<users, nextUserId, posts, nextPostId, blogs, nextBlogId, now,
          signupReq, deleteReq, last>>

\* ------------------------------------------------------------- primitives

\* bcrypt.hash(password, saltRounds): a salted digest, never the plaintext.
BcryptHash(password, rounds) ==
  [alg |-> "bcrypt", rounds |-> rounds, digest |-> password]

\* bcryptjs rejects (throws) when an argument is not a string.
BcryptThrows(password) == password \notin StrPasswords

\* bcrypt.compare(password, hash)
BcryptCompare(password, hash) == hash.digest = password

\* jwt.sign({id, email}, secret, {expiresIn: '1h'}) at time t
JwtSign(id, email, secret, t) ==
  [kind |-> "jwt", id |-> id, email |-> email, exp |-> t + ExpiresIn, key |-> secret]

NoToken == [kind |-> "undefined", id |-> 0, email |-> "", exp |-> 0, key |-> ""]
EmptyField == [kind |-> "empty", id |-> 0, email |-> "", exp |-> 0, key |-> ""]
Word(w) == [kind |-> "word", id |-> 0, email |-> w, exp |-> 0, key |-> ""]
Garbage == Word("garbage")

\* variant: a verification that never looks at the expiry
JwtVerifyIgnoreExp(token, secret, t) ==
  \/ token.kind # "jwt"
  \/ token.key # secret

\* jwt.verify(token, secret) at time t: err on a malformed token, a signature
\* made with another key, or an expiry that has passed (t >= exp).
JwtVerifyErr(token, secret, t) ==
  \/ token.kind # "jwt"
  \/ token.key # secret
  \/ t >= token.exp

\* the decoded payload that becomes req.user
JwtPayload(token) == [id |-> token.id, email |-> token.email]

\* variant: the whole row, hash included, is echoed
UserViewWholeRow(user) == user

\* public user view sent by signup and login: { id: user.id, email: user.email }
UserView(user) == [id |-> user.id, email |-> user.email]
NoUser == [id |-> 0, email |-> ""]
NoPost == [id |-> 0, user_id |-> 0, title |-> "", content |-> ""]
NoHeader == [present |-> FALSE, parts |-> << >>]
NoBody == [title |-> "", content |-> "", user_id |-> 0]

\* what a step records in `last`: the request (email .. time), whether the guard
\* let the handler run, what the handler sent (status .. blog), how many times it
\* called res.json (sends), whether an exception left it (escaped), and the rows
\* its UPDATE / DELETE statement matched, as they were before it (before)
NoResp ==
  [op |-> "none", status |-> 0, error |-> "", user |-> NoUser,
   token |-> NoToken, rows |-> {}, blog |-> NoPost, sends |-> 0, escaped |-> FALSE,
   email |-> "", password |-> "", header |-> NoHeader, ident |-> NoUser,
   id |-> 0, body |-> NoBody, time |-> 0, ran |-> FALSE, before |-> {}]

\* ------------------------------------------------------------ blog_users

\* 'SELECT ... FROM blog_users WHERE email = $1': matching rows, storage order
SelectUsersByEmail(email) == SelectSeq(users, LAMBDA u : u.email = email)

NoDelete == [stage |-> "idle", blogId |-> 0, user_id |-> 0]
NoSignup == [stage |-> "idle", email |-> "", password |-> "", hashed |-> BcryptHash("", 0)]

\* signup: the existence SELECT and the early return
SignupSelect(s, email, password) ==
  /\ signupReq[s].stage = "idle"
  /\ LET existingUser == SelectUsersByEmail(email)
         rq == [NoResp EXCEPT !.op = "signup", !.email = email, !.password = password]
     IN IF Len(existingUser) > 0
          THEN /\ last' = [rq EXCEPT !.status = 400, !.error = "User already exists",
                                     !.sends = 1]
               /\ UNCHANGED signupReq
          ELSE /\ signupReq' = [signupReq EXCEPT ![s] =
                     [NoSignup EXCEPT !.stage = "hash", !.email = email,
                                      !.password = password]]
               /\ last' = [rq EXCEPT !.op = "signup-select"]
  /\ UNCHANGED <<users, nextUserId, posts, nextPostId, blogs, nextBlogId, now,
                 deleteReq>>

\* signup: await bcrypt.hash(password, saltRounds); a throw goes to the catch
SignupHash(s) ==
  /\ signupReq[s].stage = "hash"
  /\ LET r == signupReq[s]
         rq == [NoResp EXCEPT !.op = "signup", !.email = r.email, !.password = r.password]
     IN IF BcryptThrows(r.password)
          THEN /\ last' = [rq EXCEPT !.status = 500, !.error = "Registration failed",
                                     !.sends = 1]
               /\ signupReq' = [signupReq EXCEPT ![s] = NoSignup]
          ELSE /\ signupReq' = [signupReq EXCEPT ![s] =
                     [r EXCEPT !.stage = "insert",
                               !.hashed = BcryptHash(r.password, saltRounds)]]
               /\ last' = [rq EXCEPT !.op = "signup-hash"]
  /\ UNCHANGED <<users, nextUserId, posts, nextPostId, blogs, nextBlogId, now,
                 deleteReq>>

\* signup: the INSERT ... RETURNING id, email and the 201 response
SignupInsert(s) ==
  /\ signupReq[s].stage = "insert"
  /\ Len(users) < MaxUsers
  /\ LET r == signupReq[s]
         user == [id |-> nextUserId, email |-> r.email, password |-> r.hashed]
     IN /\ users' = Append(users, user)
        /\ nextUserId' = nextUserId + 1
        /\ last' = [NoResp EXCEPT !.op = "signup", !.email = r.email,
                                  !.password = r.password, !.status = 201,
                                  !.user = UserView(user), !.sends = 1]
  /\ signupReq' = [signupReq EXCEPT ![s] = NoSignup]
  /\ UNCHANGED <<posts, nextPostId, blogs, nextBlogId, now, deleteReq>>

\* login: SELECT by email, rows[0], bcrypt.compare, jwt.sign; what it sends at time t
LoginResponse(email, password, t) ==
  LET result == SelectUsersByEmail(email)
  IN IF Len(result) = 0
       THEN [status |-> 400, error |-> "User not found", token |-> NoToken,
             user |-> NoUser]
       ELSE LET user == result[1]
            IN IF BcryptThrows(password)
                 THEN [status |-> 500, error |-> "Login failed", token |-> NoToken,
                       user |-> NoUser]
                 ELSE IF ~BcryptCompare(password, user.password)
                   THEN [status |-> 400, error |-> "Invalid credentials",
                         token |-> NoToken, user |-> NoUser]
                   ELSE [status |-> 200, error |-> "",
                         token |-> JwtSign(user.id, user.email, JWT_SECRET, t),
                         user |-> UserView(user)]

Login(email, password) ==
  /\ LET r == LoginResponse(email, password, now)
     IN last' = [NoResp EXCEPT !.op = "login", !.email = email, !.password = password,
                               !.time = now, !.sends = 1, !.status = r.status,
                               !.error = r.error, !.token = r.token, !.user = r.user]
  /\ UNCHANGED <<users, nextUserId, posts, nextPostId, blogs, nextBlogId, now,
                 signupReq, deleteReq>>

\* the clock advances
Tick ==
  /\ now < MaxTime
  /\ now' = now + 1
  /\ UNCHANGED <<users, nextUserId, posts, nextPostId, blogs, nextBlogId,
                 signupReq, deleteReq, last>>

\* ------------------------------------------------------------- Auth Guard

\* an Authorization header, as the fields authHeader.split(' ') yields
Bearer(token) == [present |-> TRUE, parts |-> <<Word("Bearer"), token>>]
BearerOnly == [present |-> TRUE, parts |-> <<Word("Bearer")>>]

\* authHeader && authHeader.split(' ')[1]
HeaderToken(header) ==
  IF ~header.present THEN NoToken
  ELSE IF Len(header.parts) < 2 THEN NoToken
  ELSE header.parts[2]

\* !token : undefined and the empty string are falsy
Falsy(token) == token.kind \in {"undefined", "empty"}

\* authenticateToken(req, res, next) at time t: the rejection it sends
\* (status 401 / 403), or status 0 and req.user when it calls next()
authenticateToken(header, t) ==
  LET token == HeaderToken(header)
  IN IF Falsy(token)
       THEN [status |-> 401, error |-> "Access denied. No token provided.",
             user |-> NoUser]
       ELSE IF JwtVerifyErr(token, JWT_SECRET, t)
         THEN [status |-> 403, error |-> "Invalid token.", user |-> NoUser]
         ELSE [status |-> 0, error |-> "", user |-> JwtPayload(token)]

\* tokens a client can hold at the current time: what login has answered so far
HeldTokens ==
  {LoginResponse(e, p, t).token : e \in Emails, p \in BodyPasswords, t \in 0..now}
    \ {NoToken}

\* tokens an attacker can make: any user's claims, signed with another key
ForgedTokens ==
  {JwtSign(users[i].id, users[i].email, OtherSecret, now) : i \in 1..Len(users)}

\* headers a client may send
Headers ==
  {NoHeader, BearerOnly, Bearer(EmptyField), Bearer(Garbage)}
    \cup {Bearer(t) : t \in HeldTokens}
    \cup {Bearer(t) : t \in ForgedTokens}

\* request bodies of the post routes; user_id 0 stands for "not in the body"
Bodies == {[title |-> "t1", content |-> "c1", user_id |-> 0],
           [title |-> "t2", content |-> "c2", user_id |-> 0]}
CreateBodies == Bodies \cup {[title |-> "t1", content |-> "c1", user_id |-> u] : u \in 1..2}

\* the guard's rejection, sent instead of running the handler
GuardResp(op, header, id, body, g) ==
  [NoResp EXCEPT !.op = op, !.header = header, !.time = now, !.id = id,
                 !.body = body, !.status = g.status, !.error = g.error, !.sends = 1]

\* the request as the handler sees it once the guard has called next()
HandlerReq(op, header, id, body, g) ==
  [NoResp EXCEPT !.op = op, !.header = header, !.time = now, !.id = id,
                 !.body = body, !.ident = g.user, !.ran = TRUE, !.sends = 1]

\* ------------------------------------------------------------ posts table

\* SQL NULL (what pg sends for an undefined parameter); a comparison with it is never true
Null == 0
SqlEq(a, b) == a # Null /\ b # Null /\ a = b

SelectPostsByUser(table, user_id) == {r \in table : SqlEq(r.user_id, user_id)}
SelectPostsById(table, id) == {r \in table : SqlEq(r.id, id)}
SelectPostsByIdAndUser(table, id, user_id) ==
  {r \in table : SqlEq(r.id, id) /\ SqlEq(r.user_id, user_id)}

\* GET /posts?user_id= : const { user_id } = req.query
ListPosts(user_id) ==
  /\ last' = [NoResp EXCEPT !.op = "listPosts", !.id = user_id, !.status = 200,
                            !.rows = SelectPostsByUser(posts, user_id), !.sends = 1]
  /\ UNCHANGED <<users, nextUserId, posts, nextPostId, blogs, nextBlogId, now,
                 signupReq, deleteReq>>

\* res.status(s).json(body) on a response object.  The first call sends.  A call
\* after the headers were sent throws ERR_HTTP_HEADERS_SENT when it has a body
\* to describe (it sets Content-Type); with an undefined body it sets no header
\* and ends an already ended response, which is dropped without an error.
ResJson(res, s, e, blog, hasBody) ==
  IF res.sends > 0
    THEN [res |-> [res EXCEPT !.sends = res.sends + 1], threw |-> hasBody]
    ELSE [res |-> [res EXCEPT !.status = s, !.error = e, !.blog = blog, !.sends = 1],
          threw |-> FALSE]

\* GET /posts/:id : the not-found branch sends and does not return
GetPostResponse(blogId) ==
  LET rq == [NoResp EXCEPT !.op = "getPost", !.id = blogId, !.time = now]
      result == SelectPostsById(posts, blogId)
      found == Cardinality(result) # 0
      row == IF found THEN CHOOSE r \in result : TRUE ELSE NoPost
      r1 == IF ~found
              THEN ResJson(rq, 400, "Blog post not found", NoPost, TRUE)
              ELSE [res |-> rq, threw |-> FALSE]
      \* res.status(200).json(result.rows[0])
      r2 == IF r1.threw THEN r1 ELSE ResJson(r1.res, 200, "", row, found)
      \* catch (err): res.status(500).json(...)
      r3 == IF r2.threw
              THEN ResJson(r2.res, 500, "Database query failed", NoPost, TRUE)
              ELSE r2
  IN [r3.res EXCEPT !.escaped = r3.threw]

GetPost(blogId) ==
  /\ last' = GetPostResponse(blogId)
  /\ UNCHANGED <<users, nextUserId, posts, nextPostId, blogs, nextBlogId, now,
                 signupReq, deleteReq>>

\* POST /posts : const user_id = req.user.id
CreatePostUserId(body, ident) == ident.id

CreatePost(header, body) ==
  /\ LET g == authenticateToken(header, now)
     IN IF g.status # 0
          THEN /\ last' = GuardResp("createPost", header, 0, body, g)
               /\ UNCHANGED <<posts, nextPostId>>
          ELSE /\ nextPostId <= MaxPosts
               /\ LET row == [id |-> nextPostId,
                              user_id |-> CreatePostUserId(body, g.user),
                              title |-> body.title, content |-> body.content]
                  IN /\ posts' = posts \cup {row}
                     /\ nextPostId' = nextPostId + 1
                     /\ last' = [HandlerReq("createPost", header, 0, body, g)
                                   EXCEPT !.status = 200, !.blog = row]
  /\ UNCHANGED <<users, nextUserId, blogs, nextBlogId, now, signupReq, deleteReq>>

\* variant: an UPDATE that leaves the owner column alone
UpdateRowKeepOwner(r, title, content, user_id) ==
  [r EXCEPT !.title = title, !.content = content]

\* 'UPDATE posts SET title = $1, content = $2, user_id = $3 WHERE id = $4'
UpdateRow(r, title, content, user_id) ==
  [r EXCEPT !.title = title, !.content = content, !.user_id = user_id]

\* PATCH /posts/:id
UpdatePost(header, blogId, body) ==
  /\ LET g == authenticateToken(header, now)
     IN IF g.status # 0
          THEN /\ last' = GuardResp("updatePost", header, blogId, body, g)
               /\ UNCHANGED posts
          ELSE LET hit == SelectPostsById(posts, blogId)
                   result == {UpdateRow(r, body.title, body.content, g.user.id) : r \in hit}
                   rq == HandlerReq("updatePost", header, blogId, body, g)
               IN /\ posts' = (posts \ hit) \cup result
                  /\ last' = IF Cardinality(result) = 0
                               THEN [rq EXCEPT !.status = 404,
                                               !.error = "Blog post not found"]
                               ELSE [rq EXCEPT !.status = 200, !.before = hit,
                                               !.blog = CHOOSE r \in result : TRUE]
  /\ UNCHANGED <<users, nextUserId, nextPostId, blogs, nextBlogId, now,
                 signupReq, deleteReq>>

\* variant: an ownership check that forgets the owner
CheckOwnershipByIdOnly(blogId, user_id) == SelectPostsById(posts, blogId)

\* DELETE /posts/:id : 'SELECT * FROM posts WHERE id = $1 AND user_id = $2'
CheckOwnership(blogId, user_id) == SelectPostsByIdAndUser(posts, blogId, user_id)

DeleteSelect(s, header, blogId) ==
  /\ deleteReq[s].stage = "idle"
  /\ LET g == authenticateToken(header, now)
     IN IF g.status # 0
          THEN /\ last' = GuardResp("deletePost", header, blogId, NoBody, g)
               /\ UNCHANGED deleteReq
          ELSE LET rq == HandlerReq("deletePost", header, blogId, NoBody, g)
               IN IF Cardinality(CheckOwnership(blogId, g.user.id)) = 0
                    THEN /\ last' = [rq EXCEPT !.status = 404, !.error =
                                "Blog post not found or not authorized to delete"]
                         /\ UNCHANGED deleteReq
                    ELSE /\ last' = [rq EXCEPT !.op = "deletePost-select", !.sends = 0]
                         /\ deleteReq' = [deleteReq EXCEPT ![s] =
                               [stage |-> "delete", blogId |-> blogId,
                                user_id |-> g.user.id]]
  /\ UNCHANGED <<users, nextUserId, posts, nextPostId, blogs, nextBlogId, now,
                 signupReq>>

\* DELETE /posts/:id : 'DELETE FROM posts WHERE id = $1' and the response.
DeleteDelete(s) ==
  /\ deleteReq[s].stage = "delete"
  /\ LET d == deleteReq[s]
         result == SelectPostsById(posts, d.blogId)
         rq == [NoResp EXCEPT !.op = "deletePost-delete", !.id = d.blogId, !.time = now,
                              !.ident = [id |-> d.user_id, email |-> ""],
                              !.ran = TRUE, !.sends = 1]
     IN /\ posts' = posts \ result
        /\ last' = IF Cardinality(result) = 0
                     THEN [rq EXCEPT !.status = 404, !.error = "Blog post not found"]
                     ELSE [rq EXCEPT !.status = 200, !.before = result]
  /\ deleteReq' = [deleteReq EXCEPT ![s] = NoDelete]
  /\ UNCHANGED <<users, nextUserId, nextPostId, blogs, nextBlogId, now, signupReq>>

\* ------------------------------------------------- blogs table (index.js)

\* GET /blogs : const { user_id } = req.params, and the route '/blogs' declares
\* no parameter, so user_id is undefined whatever the query string holds
ListBlogsUserId(query_user_id) == Null

ListBlogs(query_user_id) ==
  /\ last' = [NoResp EXCEPT !.op = "listBlogs", !.id = query_user_id, !.status = 200,
                !.rows = SelectPostsByUser(blogs, ListBlogsUserId(query_user_id)),
                !.sends = 1]
  /\ UNCHANGED <<users, nextUserId, posts, nextPostId, blogs, nextBlogId, now,
                 signupReq, deleteReq>>

\* POST /blogs : no guard; const { title, content, user_id } = req.body
CreateBlog(header, body) ==
  /\ nextBlogId <= MaxPosts
  /\ body.user_id \in {u.id : u \in {users[i] : i \in 1..Len(users)}}
  /\ LET row == [id |-> nextBlogId, user_id |-> body.user_id,
                 title |-> body.title, content |-> body.content]
     IN /\ blogs' = blogs \cup {row}
        /\ nextBlogId' = nextBlogId + 1
        /\ last' = [NoResp EXCEPT !.op = "createBlog", !.header = header,
                                  !.time = now, !.body = body, !.status = 200,
                                  !.blog = row, !.ran = TRUE, !.sends = 1]
  /\ UNCHANGED <<users, nextUserId, posts, nextPostId, now, signupReq, deleteReq>>

\* ------------------------------------------------------------------ start
Init ==
  /\ users = << >>
  /\ nextUserId = 1
  /\ posts = {}
  /\ nextPostId = 1
  /\ blogs = {}
  /\ nextBlogId = 1
  /\ now = 0
  /\ signupReq = [s \in Slots |-> NoSignup]
  /\ deleteReq = [s \in Slots |-> NoDelete]
  /\ last = NoResp

\* signup and login requests, arriving concurrently
NextAuth ==
  \/ \E s \in Slots, e \in Emails, p \in BodyPasswords : SignupSelect(s, e, p)
  \/ \E s \in Slots : SignupHash(s)
  \/ \E s \in Slots : SignupInsert(s)
  \/ \E e \in Emails, p \in BodyPasswords : Login(e, p)
  \/ Tick

SpecAuth == Init /\ [][NextAuth]_vars

\* signup requests one after another: a request starts when none is in flight
NoSignupInFlight == \A s \in Slots : signupReq[s].stage = "idle"

NextSeq ==
  \/ \E s \in Slots, e \in Emails, p \in BodyPasswords :
        NoSignupInFlight /\ SignupSelect(s, e, p)
  \/ \E s \in Slots : SignupHash(s)
  \/ \E s \in Slots : SignupInsert(s)
  \/ \E e \in Emails, p \in BodyPasswords : Login(e, p)

SpecSeq == Init /\ [][NextSeq]_vars

\* the store as two completed signups leave it (a@x / pw1, then b@x / pw2): the
\* state SpecSeq reaches by SignupSelect, SignupHash, SignupInsert, twice.  The
\* post routes never write blog_users, so they are explored from this store.
Registered ==
  <<[id |-> 1, email |-> "a@x", password |-> BcryptHash("pw1", saltRounds)],
    [id |-> 2, email |-> "b@x", password |-> BcryptHash("pw2", saltRounds)]>>

InitRegistered ==
  /\ users = Registered
  /\ nextUserId = 3
  /\ posts = {}
  /\ nextPostId = 1
  /\ blogs = {}
  /\ nextBlogId = 1
  /\ now = 0
  /\ signupReq = [s \in Slots |-> NoSignup]
  /\ deleteReq = [s \in Slots |-> NoDelete]
  /\ last = NoResp

\* headers of clients that are logged in (SpecGuard sends every other kind)
ClientHeaders == {Bearer(t) : t \in HeldTokens}

\* ids a client may ask for: the ones handed out so far and the next one
KnownPostIds == 1..nextPostId
KnownUserIds == 1..nextUserId

\* the write routes of part_000, requests arriving concurrently
NextPosts ==
  \/ \E h \in ClientHeaders, b \in CreateBodies : CreatePost(h, b)
  \/ \E h \in ClientHeaders, i \in KnownPostIds, b \in Bodies : UpdatePost(h, i, b)
  \/ \E s \in Slots, h \in ClientHeaders, i \in KnownPostIds : DeleteSelect(s, h, i)
  \/ \E s \in Slots : DeleteDelete(s)

SpecPosts == InitRegistered /\ [][NextPosts]_vars

\* the read routes of part_000, over a table that creates, updates and deletes change
NextReads ==
  \/ \E h \in ClientHeaders, b \in Bodies : CreatePost(h, b)
  \/ \E h \in ClientHeaders, i \in KnownPostIds, b \in Bodies : UpdatePost(h, i, b)
  \/ \E h \in ClientHeaders, i \in KnownPostIds : DeleteSelect("r1", h, i)
  \/ DeleteDelete("r1")
  \/ \E u \in KnownUserIds : ListPosts(u)
  \/ \E i \in KnownPostIds : GetPost(i)

SpecReads == InitRegistered /\ [][NextReads]_vars

\* the guarded routes of part_000 under every kind of header, as time passes
GuardBodies == {[title |-> "t1", content |-> "c1", user_id |-> 0]}

NextGuard ==
  \/ \E h \in Headers, b \in GuardBodies :
        nextPostId <= MaxGuardPosts /\ CreatePost(h, b)
  \/ \E h \in Headers, i \in KnownPostIds, b \in GuardBodies : UpdatePost(h, i, b)
  \/ \E h \in Headers, i \in KnownPostIds : DeleteSelect("r1", h, i)
  \/ DeleteDelete("r1")
  \/ Tick

SpecGuard == InitRegistered /\ [][NextGuard]_vars

\* the blog routes of index.js
NextBlogs ==
  \/ \E h \in Headers, b \in CreateBodies : CreateBlog(h, b)
  \/ \E u \in KnownUserIds : ListBlogs(u)
  \/ Tick

SpecBlogs == InitRegistered /\ [][NextBlogs]_vars

\* ================================================================= claims

UserRows == {users[i] : i \in 1..Len(users)}

\* a step in which a request was handled (the clock alone did not move)
PostStepped == last' # last \/ posts' # posts \/ deleteReq' # deleteReq
SignupStepped == last' # last \/ users' # users \/ signupReq' # signupReq

\* C1: every Create Post, on POST /posts and on POST /blogs, stores as user_id the
\* id of the identity the requester authenticated as, never a value of the body.
C1_OwnerFromIdentity ==
  (last.op \in {"createPost", "createBlog"} /\ last.status = 200) =>
     LET g == authenticateToken(last.header, last.time)
     IN /\ g.status = 0
        /\ last.blog.user_id = g.user.id
        /\ last.blog \in (posts \cup blogs)

NotFoundOrNotAuthorized == "Blog post not found or not authorized to delete"

\* C2: a Delete Post by B on a post that B does not own gets exactly the response
\* of a Delete Post on an id that does not exist, 404 'Blog post not found or not
\* authorized to delete', and the posts table is left as it was.
C2_DeleteDoesNotLeak ==
  [][ (PostStepped /\ last'.op \in {"deletePost", "deletePost-select"} /\ last'.ran
         /\ ~\E r \in posts : r.id = last'.id /\ r.user_id = last'.ident.id)
      => /\ last'.op = "deletePost"
         /\ last'.status = 404
         /\ last'.error = NotFoundOrNotAuthorized
         /\ last'.sends = 1
         /\ last'.blog = NoPost /\ last'.rows = {}
         /\ posts' = posts
         /\ deleteReq' = deleteReq ]_vars

C2_Witness ==
  /\ last.op = "deletePost" /\ last.ran /\ last.status = 404
  /\ \E r \in posts : r.id = last.id /\ r.user_id # last.ident.id

\* C3: under any interleaving of concurrent Register requests, no two rows of the
\* user table have the same email.
C3_UniqueEmails ==
  \A i, j \in 1..Len(users) : users[i].email = users[j].email => i = j

\* what a finished Register request must have sent and stored
RegisterOutcome(l, before, after) ==
  IF \E u \in {before[i] : i \in 1..Len(before)} : u.email = l.email
    THEN /\ l.status = 400
         /\ l.error = "User already exists"
         /\ after = before
    ELSE /\ l.status = 201
         /\ DOMAIN l.user = {"id", "email"}
         /\ l.user.email = l.email
         /\ Len(after) = Len(before) + 1
         /\ SubSeq(after, 1, Len(before)) = before
         /\ after[Len(after)].id = l.user.id
         /\ after[Len(after)].email = l.email

CarriesNoToken(h) ==
  \/ ~h.present
  \/ Len(h.parts) < 2
  \/ h.parts[2].kind = "empty"

BadOrExpired(tok, t) ==
  \/ tok.kind # "jwt"
  \/ tok.key # JWT_SECRET
  \/ tok.exp <= t

\* C5: on the guarded routes a request without a token gets 401, one whose token
\* has an invalid signature or a passed expiry gets 403, and in both cases the
\* handler does not run and nothing stored changes; any other request runs the
\* handler with the token's {id, email} as identity.  Only the token's signature
\* and its expiry at the time of the request decide.
C5_AuthGuard ==
  [][ (PostStepped /\ last'.op \in {"createPost", "updatePost", "deletePost",
                                    "deletePost-select"})
      => /\ last'.time = now
         /\ IF CarriesNoToken(last'.header)
              THEN /\ last'.status = 401 /\ ~last'.ran
                   /\ posts' = posts /\ deleteReq' = deleteReq
              ELSE IF BadOrExpired(last'.header.parts[2], now)
                THEN /\ last'.status = 403 /\ ~last'.ran
                     /\ posts' = posts /\ deleteReq' = deleteReq
                ELSE /\ last'.ran
                     /\ last'.status \notin {401, 403}
                     /\ last'.ident = [id |-> last'.header.parts[2].id,
                                       email |-> last'.header.parts[2].email] ]_vars

\* a token the server signed, rejected because its hour is over
C5_Witness ==
  /\ last.op \in {"createPost", "updatePost", "deletePost"}
  /\ last.status = 403
  /\ ~CarriesNoToken(last.header)
  /\ last.header.parts[2].kind = "jwt"
  /\ last.header.parts[2].key = JWT_SECRET
  /\ last.header.parts[2].exp <= last.time

\* C6: a Login whose email and password match a stored user answers with a token
\* carrying exactly that user's {id, email}, which the Auth Guard accepts until it
\* expires; a Login with an unknown email or a password that does not match
\* answers 400 without a token, never 500.
C6_Login ==
  last.op = "login" =>
    LET matching == {u \in UserRows : u.email = last.email
                                       /\ BcryptCompare(last.password, u.password)}
    IN IF matching # {}
         THEN /\ last.status = 200
              /\ \E u \in matching :
                   /\ last.token.id = u.id /\ last.token.email = u.email
                   /\ \A t \in last.time..(last.token.exp - 1) :
                        LET g == authenticateToken(Bearer(last.token), t)
                        IN g.status = 0 /\ g.user = [id |-> u.id, email |-> u.email]
         ELSE /\ last.status = 400
              /\ last.token = NoToken

\* C7: List Posts with user_id = u, on GET /posts and on GET /blogs, returns exactly
\* the stored posts whose user_id is u.
C7_ListExact ==
  /\ last.op = "listPosts" =>
       last.status = 200 /\ last.rows = {r \in posts : r.user_id = last.id}
  /\ last.op = "listBlogs" =>
       last.status = 200 /\ last.rows = {r \in blogs : r.user_id = last.id}

\* C8: every Get Post sends exactly one response and lets no error out of the
\* handler: 200 with the stored row when the id exists, a single not-found
\* response, with no second send attempted, when it does not.
C8_GetPostOneSend ==
  last.op = "getPost" =>
    /\ last.sends = 1
    /\ ~last.escaped
    /\ IF \E r \in posts : r.id = last.id
         THEN last.status = 200 /\ last.blog \in posts /\ last.blog.id = last.id
         ELSE last.status \in {400, 404} /\ last.error = "Blog post not found"

\* C9: under any interleaving of Delete Post and Update Post requests, a Delete by
\* A removes a row only if the row's user_id is A at the moment it is removed.
C9_DeleteOnlyOwn ==
  (last.op = "deletePost-delete" /\ last.status = 200) =>
     \A r \in last.before : r.user_id = last.ident.id

\* C10: an Update Post by B on an existing id replaces title and content, makes B
\* the owner whoever owned the post, and changes no other post; on an id that
\* matches no row it answers 404 and changes nothing.  A Delete Post is then
\* decided by the owner the row has now: 404 for anyone else (the previous owner
\* included), while the owner's Delete goes through and removes the row.
C10_UpdateReassigns ==
  [][ /\ (PostStepped /\ last'.op = "updatePost" /\ last'.ran) =>
           LET hit == {r \in posts : r.id = last'.id}
               new == [id |-> last'.id, user_id |-> last'.ident.id,
                       title |-> last'.body.title, content |-> last'.body.content]
           IN IF hit = {}
                THEN /\ last'.status = 404 /\ last'.error = "Blog post not found"
                     /\ posts' = posts
                ELSE /\ last'.status = 200 /\ last'.blog = new
                     /\ posts' = (posts \ hit) \cup {new}
      /\ (PostStepped /\ last'.op \in {"deletePost", "deletePost-select"} /\ last'.ran) =>
           IF \E r \in posts : r.id = last'.id /\ r.user_id = last'.ident.id
             THEN last'.op = "deletePost-select"
             ELSE last'.status = 404
      /\ (PostStepped /\ last'.op = "deletePost-delete"
            /\ \E r \in posts : r.id = last'.id) =>
           /\ last'.status = 200
           /\ posts' = {r \in posts : r.id # last'.id} ]_vars

\* B has taken a post over from another user
C10_Witness ==
  /\ last.op = "updatePost" /\ last.status = 200
  /\ \E r \in last.before : r.user_id # last.ident.id
  /\ last.blog.user_id = last.ident.id
  /\ last.blog \in posts

====
